---------------------------- MODULE Spec2Model ----------------------------
(***************************************************************************)
(* A model of prodash's two renderers:                                     *)
(*   - the line renderer, src/line/draw.rs (`all`, `messages`,             *)
(*     `newline_with_overdraw`, `format_progress`, `draw_progress_bar`);   *)
(*   - the TUI event loop, src/tui/engine.rs (`render_with_input`).        *)
(* The progress tree (tree::Root) is not part of these sources; it is      *)
(* modelled from its contract in the specification, sections 4.6 and 6.    *)
(*                                                                         *)
(* Text is a sequence of one-character strings; every character used is    *)
(* ASCII, so its unicode display width is 1 and the width of a text is its *)
(* length.  Styling (ANSI escape codes, `colored`) never counts in a       *)
(* width and is left out of the texts.                                     *)
(***************************************************************************)
EXTENDS Integers, Sequences, FiniteSets, TLC

VARIABLES
    \* ---- the shared progress tree (tree::Root) ----
    tree,                   \* task slot -> Option of the task's Value
    ring,                   \* the retained messages, oldest first
    total,                  \* number of messages ever appended
    \* ---- line renderer: line::draw::State ----
    state_tree,             \* State.tree, the snapshot buffer
    state_messages,         \* State.messages
    for_next_copy,          \* State.for_next_copy
    max_message_origin_size,\* State.max_message_origin_size
    blocks_per_line,        \* State.blocks_per_line
    \* ---- line renderer: what the latest call of `all` did ----
    out,                    \* lines written to the sink by the latest call
    moved_up,               \* Option of the argument of the cursor::MoveUp written
    result,                 \* "none" | "ok" | "empty"
    call,                   \* the arguments of the latest call
    prev_state,             \* blocks_per_line, for_next_copy and
                            \* max_message_origin_size as that call found them
    rendered,               \* every message rendered so far, in order
    overrun,                \* the ring dropped a message before it was copied
    sink,                   \* Option of the failure of the sink in the latest
                            \* call: the write that fails, and its error
    written,                \* the writes to the sink that call attempted
    screen,                 \* Option of the terminal the sink writes to:
                            \* its rows from the row of the cursor down, and
                            \* the rows the latest call left above the
                            \* cursor; None for a sink that is not looked at
    out_before,             \* Option of `out` of the call before, when the
                            \* latest call rendered the same again on a
                            \* sink that is looked at
    \* ---- TUI event loop: locals of render_with_input ----
    pc,                     \* position of the loop
    tui_state,              \* `state`, the draw::State
    interrupt_mode,         \* `interrupt_mode`
    tick,                   \* `tick`
    previous_root,          \* `previous_root`
    previous_state,         \* `previous_state`
    entries,                \* `entries`, the buffer of the snapshot
    options,                \* the TuiOptions the loop was started with
    view_changes,           \* view-changing events delivered so far
    last_event,             \* the event of the current/latest iteration
    redrawn,                \* that iteration ran the redraw pass
    calm,                   \* nothing changed since: the latest Tick / the
                            \* latest iteration that found the view unchanged
    calm_at_dispatch,       \* `calm` as the current/latest iteration found it
    mode_at_dispatch,       \* `interrupt_mode` as that iteration found it
    frame,                  \* Option of what the latest draw::all was given:
                            \* `state` and `interrupt_mode` (its entries are
                            \* `entries`)
    \* ---- the row formatter and the bar, called on their own ----
    bar_call,               \* Option of the arguments of draw_progress_bar
    bar,                    \* Option of the tokens it pushed for them
    bar_before,             \* Option of the tokens pushed before the latest
                            \* advance of the step
    fmt_call,               \* Option of the arguments of format_progress
    buf,                    \* Option of the tokens it left in `buf`
    \* ---- the key reader: the thread of key_input_stream ----
    stdin,                  \* the keys the terminal has yet to hand out
    keys_read,              \* the keys read from the terminal so far
    key_send,               \* Option of the key the thread is sending
    key_receive,            \* the keys in the channel, oldest first
    delivered               \* the keys the loop was given as Input, in order

treeVars == <<tree, ring, total>>
lineVars == <<state_tree, state_messages, for_next_copy, max_message_origin_size,
              blocks_per_line, out, moved_up, result, call, prev_state,
              rendered, overrun, sink, written, out_before, screen>>
tuiVars  == <<pc, tui_state, interrupt_mode, tick, previous_root, previous_state,
              entries, options, view_changes, last_event, redrawn, calm,
              calm_at_dispatch, mode_at_dispatch, frame>>
barVars  == <<bar_call, bar, bar_before, fmt_call, buf>>
keyVars  == <<stdin, keys_read, key_send, key_receive, delivered>>
vars     == <<treeVars, lineVars, tuiVars, barVars, keyVars>>

-----------------------------------------------------------------------------
(* Bounds of the model *)

\* Task slots of the tree.
MaxTasks == 1
\* Messages the producers append over a run.
MaxMessages == 3
\* View-changing events delivered to the TUI over a run.
MaxViewChanges == 1
\* The frame counter is kept exactly up to this value and, above it, modulo
\* the column-width period (the loop reads only `tick == 1` and `tick % n`).
MaxFrames == 2
\* The steps of the progresses the row formatter and the bar are called on.
MaxStep == 7
\* The columns the row formatter and the bar are called with.
MaxColumns == 10
\* The writes to the sink among which one may fail.
MaxWrites == 8
\* The keys the terminal hands out over a run.
MaxKeys == 3

(* Program constants *)

\* u16::MAX + 1: widths and line counts are u16.
U16 == 65536
\* tree::Level is u8; the default level filter is 0..=Level::max_value().
LevelMax == 255
\* Capacity of the message ring of the tree.
RingCapacity == 2

\* Option<T>: None is the empty sequence, Some(x) the one-element sequence.
None == <<>>
Some(x) == <<x>>
IsSome(o) == o # <<>>
Unwrap(o) == o[1]

-----------------------------------------------------------------------------
(* Text helpers *)

Max(a, b) == IF a >= b THEN a ELSE b
Min(a, b) == IF a <= b THEN a ELSE b
SatSub(a, b) == IF a >= b THEN a - b ELSE 0

\* format!("{:>width$}", "", width = n): n spaces.
Spaces(n) == [i \in 1..n |-> " "]

\* format!("{:=<width$}", "", width = n): n equal signs.
Equals(n) == [i \in 1..n |-> "="]

Reverse(s) == [i \in 1..Len(s) |-> s[Len(s) + 1 - i]]

DigitChar == <<"0", "1", "2", "3", "4", "5", "6", "7", "8", "9">>

\* format!("{}", n) of an unsigned integer.
RECURSIVE Digits(_)
Digits(n) == IF n < 10 THEN <<DigitChar[n + 1]>>
             ELSE Digits(n \div 10) \o <<DigitChar[(n % 10) + 1]>>

\* The text of a token sequence, as ANSIStrings writes it (styles left out).
RECURSIVE Flatten(_)
Flatten(tokens) == IF tokens = <<>> THEN <<>>
                   ELSE Head(tokens) \o Flatten(Tail(tokens))

\* strings.iter().map(|s| s.width() as u16).sum()
RECURSIVE block_count_sans_ansi_codes(_)
block_count_sans_ansi_codes(tokens) ==
    IF tokens = <<>> THEN 0
    ELSE ((Len(Head(tokens)) % U16) + block_count_sans_ansi_codes(Tail(tokens))) % U16

-----------------------------------------------------------------------------
(* The progress tree: tree::Root, seen through the interface of section 6 *)

\* The key of task slot i; slots are numbered in the display (sort) order
\* of their keys: <<1>>, <<1,1>>, <<2>>, <<2,1>>, ...
KeyOf(i) == IF i % 2 = 1 THEN <<(i + 1) \div 2>> ELSE <<i \div 2, 1>>

\* Key::level(): the depth of the key, 1 for a child of the root.
KeyLevel(i) == Len(KeyOf(i))

Slots == 1..MaxTasks

\* The task values the producers set: a headline without progress and an
\* unbounded progress with a unit.
TaskValues ==
    { [name |-> <<"a", "b", "c", "d", "e", "f">>, progress |-> None],
      [name |-> <<"t">>,
       progress |-> Some([step |-> 3, done_at |-> None, unit |-> Some(<<"k", "B">>)])] }

EmptyTree == [i \in Slots |-> None]

Trees == [Slots -> {None} \cup {Some(v) : v \in TaskValues}]

\* Root::sorted_snapshot: every entry, in the order of the keys.
RECURSIVE SnapshotFrom(_, _)
SnapshotFrom(t, i) ==
    IF i > MaxTasks THEN <<>>
    ELSE (IF IsSome(t[i])
          THEN <<[key |-> i, level |-> KeyLevel(i), value |-> Unwrap(t[i])]>>
          ELSE <<>>) \o SnapshotFrom(t, i + 1)

sorted_snapshot(t) == SnapshotFrom(t, 1)

\* Root::deep_eq: equality of the entries.
deep_eq(a, b) == a = b

\* Root::deep_clone: a copy of the entries.
deep_clone(t) == t

\* The messages the producers log: the n-th message of a run.
MessageAt(n) ==
    IF n % 2 = 1
    THEN [time |-> n, level |-> "Info", origin |-> <<"a">>, message |-> <<"h", "i">>]
    ELSE [time |-> n, level |-> "Failure", origin |-> <<"b", "c", "d">>,
          message |-> <<"x">>]

\* The last n elements of s.
LastN(s, n) == SubSeq(s, Len(s) - n + 1, Len(s))

\* Root::copy_new_messages(out, prev): the messages appended since `prev`
\* (all that are retained when there is no `prev` or the ring has wrapped
\* past it), and the cursor for the next call.
copy_new_messages(r, n, prev) ==
    [messages |-> IF IsSome(prev)
                  THEN LastN(r, Min(n - Unwrap(prev), Len(r)))
                  ELSE r,
     cursor   |-> n]

\* crate::time::format_time_for_messages: "HH:MM:SS".
format_time_for_messages(time) ==
    <<"0", "0", ":", "0", "0", ":">> \o
    (IF time % 60 < 10 THEN <<"0">> ELSE <<>>) \o Digits(time % 60)

-----------------------------------------------------------------------------
(* src/line/draw.rs: the row formatter and the bar *)

\* Progress::fraction(): step / done_at when there is a non-zero done_at,
\* kept as the pair of its numerator and denominator.
fraction(p) ==
    IF IsSome(p.done_at) /\ Unwrap(p.done_at) # 0
    THEN Some([num |-> p.step, den |-> Unwrap(p.done_at)])
    ELSE None

\* The cycle with its blanks first.
CHARS_blanks_first == <<" ", " ", " ", "=", "=", "=">>

\* const CHARS: [char; 6]
CHARS == <<"=", "=", "=", " ", " ", " ">>

\* draw_progress_bar that does not reverse the glyphs of the marquee.
draw_progress_bar_not_reversed(p, blocks_available) ==
    LET avail == SatSub(blocks_available, 3)
        f     == fraction(p)
    IN  << <<" ", "[">> >> \o
        (IF IsSome(f)
         THEN LET avail1 == SatSub(avail, 1)
                  progress_blocks == (avail1 * Unwrap(f).num) \div Unwrap(f).den
              IN  << Equals(progress_blocks),
                     <<">">>,
                     Spaces((avail1 - (progress_blocks % U16)) % U16) >>
         ELSE << [i \in 1..avail |-> CHARS[((p.step + i - 1) % Len(CHARS)) + 1]] >>) \o
        << <<"]">> >>

\* draw_progress_bar that reserves no column for the '>'.
draw_progress_bar_without_arrow_column(p, blocks_available) ==
    LET avail == SatSub(blocks_available, 3)
        f     == fraction(p)
    IN  << <<" ", "[">> >> \o
        (IF IsSome(f)
         THEN LET progress_blocks == (avail * Unwrap(f).num) \div Unwrap(f).den
              IN  << Equals(progress_blocks),
                     <<">">>,
                     Spaces((avail - (progress_blocks % U16)) % U16) >>
         ELSE << Reverse([i \in 1..avail |->
                          CHARS[((p.step + i - 1) % Len(CHARS)) + 1]]) >>) \o
        << <<"]">> >>

\* draw_progress_bar: the tokens it pushes for `blocks_available` columns.
draw_progress_bar(p, blocks_available) ==
    LET avail == SatSub(blocks_available, 3)
        f     == fraction(p)
    IN  << <<" ", "[">> >> \o
        (IF IsSome(f)
         THEN LET avail1 == SatSub(avail, 1)
                  \* (blocks_available as f32 * fraction).floor() as usize
                  progress_blocks == (avail1 * Unwrap(f).num) \div Unwrap(f).den
              IN  << Equals(progress_blocks),
                     <<">">>,
                     \* u16 subtraction of `progress_blocks as u16`
                     Spaces((avail1 - (progress_blocks % U16)) % U16) >>
         ELSE << Reverse([i \in 1..avail |->
                          CHARS[((p.step + i - 1) % Len(CHARS)) + 1]]) >>) \o
        << <<"]">> >>

\* format_progress: the tokens of the row of one entry.
format_progress(level, value, column_count) ==
    LET indent == << Spaces(level) >>
    IN  IF IsSome(value.progress)
        THEN LET progress == Unwrap(value.progress)
                 prefix ==
                     indent \o
                     << value.name, <<" ">>,
                        IF IsSome(progress.done_at)
                        THEN Digits(progress.step) \o <<" ", "/", " ">> \o
                             Digits(Unwrap(progress.done_at))
                        ELSE Digits(progress.step) >> \o
                     (IF IsSome(progress.unit)
                      THEN << <<" ">>, Unwrap(progress.unit) >>
                      ELSE <<>>)
                 blocks_left ==
                     SatSub(column_count, block_count_sans_ansi_codes(prefix))
             IN  IF blocks_left > 0
                 THEN prefix \o draw_progress_bar(progress, blocks_left)
                 ELSE prefix
        ELSE indent \o << value.name >>

\* newline_with_overdraw that writes the newline alone.
newline_with_overdraw_without_padding(tokens, blocks_in_last_iteration) ==
    [pad |-> 0, count |-> block_count_sans_ansi_codes(tokens)]

\* newline_with_overdraw that returns the width of the row with its padding.
newline_with_overdraw_counting_padding(tokens, blocks_in_last_iteration) ==
    LET current_block_count == block_count_sans_ansi_codes(tokens)
    IN  [pad   |-> IF blocks_in_last_iteration > current_block_count
                   THEN blocks_in_last_iteration - current_block_count
                   ELSE 0,
         count |-> Max(blocks_in_last_iteration, current_block_count)]

\* newline_with_overdraw that pads with the previous width, not with the
\* difference of the widths.
newline_with_overdraw_unsubtracted(tokens, blocks_in_last_iteration) ==
    LET current_block_count == block_count_sans_ansi_codes(tokens)
    IN  [pad   |-> IF blocks_in_last_iteration > current_block_count
                   THEN blocks_in_last_iteration
                   ELSE 0,
         count |-> current_block_count]

\* newline_with_overdraw: the spaces written before the newline, and the
\* block count it returns.
newline_with_overdraw(tokens, blocks_in_last_iteration) ==
    LET current_block_count == block_count_sans_ansi_codes(tokens)
    IN  [pad   |-> IF blocks_in_last_iteration > current_block_count
                   THEN blocks_in_last_iteration - current_block_count
                   ELSE 0,
         count |-> current_block_count]

\* One line written to the sink: `text`, then `overdraw` spaces, then the
\* newline.  `of` names what the line shows: the time of the message, the
\* slot of the task, 0 for a line that only erases.
Line(kind, of, text, overdraw) ==
    [kind |-> kind, of |-> of, text |-> text, overdraw |-> overdraw]

\* The tokens of one message line (the body of the loop of `messages`).
message_tokens(m, max_origin, timestamp) ==
    << <<" ">> >> \o
    (IF timestamp
     THEN << format_time_for_messages(m.time), <<" ">> >>
     ELSE << <<>> >>) \o
    << Spaces(max_origin - Len(m.origin)) \o m.origin, <<" ">>, m.message >>

\* The size of the widest origin that forgets the origins seen before.
max_origin_size_of_latest(max_origin, origin) == Len(origin)

\* state.max_message_origin_size.max(message_block_len)
max_origin_size(max_origin, origin) == Max(max_origin, Len(origin))

\* messages(out, state, colored, timestamp): the lines written for `msgs`,
\* and blocks_per_line and max_message_origin_size afterwards.
RECURSIVE messages(_, _, _, _)
messages(msgs, bpl, max_origin, timestamp) ==
    IF msgs = <<>>
    THEN [lines |-> <<>>, blocks_per_line |-> bpl,
          max_message_origin_size |-> max_origin]
    ELSE LET m == Head(msgs)
             \* state.blocks_per_line.pop_front().unwrap_or(0)
             blocks_drawn_during_previous_tick ==
                 IF bpl = <<>> THEN 0 ELSE Head(bpl)
             popped == IF bpl = <<>> THEN <<>> ELSE Tail(bpl)
             max1 == max_origin_size(max_origin, m.origin)
             tokens == message_tokens(m, max1, timestamp)
             message_block_count == block_count_sans_ansi_codes(tokens)
             pad == IF blocks_drawn_during_previous_tick > message_block_count
                    THEN newline_with_overdraw(
                             tokens, blocks_drawn_during_previous_tick).pad
                    ELSE 0
             rest == messages(Tail(msgs), popped, max1, timestamp)
         IN  [lines |-> << Line("message", m.time, Flatten(tokens), pad) >>
                        \o rest.lines,
              blocks_per_line |-> rest.blocks_per_line,
              max_message_origin_size |-> rest.max_message_origin_size]

-----------------------------------------------------------------------------
(* src/line/draw.rs: `all` *)

\* The level range of a call: config.level_filter, or 0..=Level::max_value().
level_range(config) ==
    IF IsSome(config.level_filter)
    THEN Unwrap(config.level_filter)
    ELSE [start |-> 0, end |-> LevelMax]

\* The rows without the filter: every entry of the snapshot.
filtered_not_at_all(snapshot, config) == snapshot

\* state.tree.iter().filter(|(k, _)| level_range.contains(&k.level()))
filtered(snapshot, config) ==
    LET range == level_range(config)
        in_range(e) == range.start <= e.level /\ e.level <= range.end
    IN  SelectSeq(snapshot, in_range)

\* blocks_per_line.resize(lines_to_be_drawn, 0) when it is shorter.
grown(bpl, lines_to_be_drawn) ==
    IF Len(bpl) < lines_to_be_drawn
    THEN bpl \o [i \in 1..(lines_to_be_drawn - Len(bpl)) |-> 0]
    ELSE bpl

\* cursor::MoveUp that forgets the lines that only erase.
rewind_drawn_only(len, lines_drawn) == lines_drawn % U16

\* The argument of cursor::MoveUp, for a queue of `len` widths of which
\* `lines_drawn` were drawn: the two `as u16` casts.
rewind(len, lines_drawn) ==
    IF len > lines_drawn THEN len % U16 ELSE lines_drawn % U16

\* blocks_per_line that keeps the widths of the stale lines.
shrunk_never(bpl, lines_drawn) == bpl

\* blocks_per_line after the stale lines were overwritten:
\* blocks_per_line.resize(lines_drawn, 0) when it is longer.
shrunk(bpl, lines_drawn) ==
    IF Len(bpl) > lines_drawn THEN SubSeq(bpl, 1, lines_drawn) ELSE bpl

\* The block under `if show_progress && config.output_is_terminal`: the lines
\* written, the cursor movement and blocks_per_line afterwards.
progress_block(snapshot, bpl, config) ==
    LET rows == filtered(snapshot, config)
        lines_to_be_drawn == Len(rows)
        before == grown(bpl, lines_to_be_drawn)
        \* One turn of the loop over the rows zipped with blocks_per_line:
        \* the line written and the width stored.
        turns == [i \in 1..lines_to_be_drawn |->
                    LET tokens == format_progress(rows[i].level, rows[i].value,
                                                  config.columns)
                        nl == newline_with_overdraw(tokens, before[i])
                    IN  [line  |-> Line("progress", rows[i].key, Flatten(tokens),
                                        nl.pad),
                         count |-> nl.count]]
        drawn == [i \in 1..lines_to_be_drawn |-> turns[i].line]
        stored == [i \in 1..Len(before) |->
                    IF i <= lines_to_be_drawn THEN turns[i].count ELSE before[i]]
        lines_drawn == lines_to_be_drawn
        \* writeln!(out, "{:>width$}", "", width = *blocks_in_last_iteration)
        erased == [i \in 1..(Len(stored) - lines_drawn) |->
                    Line("erase", 0, <<>>, stored[lines_drawn + i])]
    IN  [lines |-> drawn \o erased,
         moved_up |-> Some(rewind(Len(stored), lines_drawn)),
         blocks_per_line |-> shrunk(stored, lines_drawn)]

\* The fields of line::draw::State.
LineState(t, m, c, o, b) ==
    [tree |-> t, messages |-> m, for_next_copy |-> c,
     max_message_origin_size |-> o, blocks_per_line |-> b]

\* A copy that does not pass the cursor of the previous call.
copy_step_without_cursor(st, root) == copy_new_messages(root.ring, root.total, None)

\* progress.copy_new_messages(&mut state.messages, state.for_next_copy.take())
copy_step(st, root) == copy_new_messages(root.ring, root.total, st.for_next_copy)

\* `all` from the copy of the new messages on: what it writes and the State
\* it leaves.
draw(show_progress, config, st, snapshot, root) ==
    LET copy == copy_step(st, root)
        msgs == messages(copy.messages, st.blocks_per_line,
                         st.max_message_origin_size, config.timestamp)
        prog == IF show_progress /\ config.output_is_terminal
                THEN progress_block(snapshot, msgs.blocks_per_line, config)
                ELSE [lines |-> <<>>, moved_up |-> None,
                      blocks_per_line |-> msgs.blocks_per_line]
    IN  [result |-> "ok",
         out |-> msgs.lines \o prog.lines,
         moved_up |-> prog.moved_up,
         state |-> LineState(snapshot, copy.messages, Some(copy.cursor),
                             msgs.max_message_origin_size, prog.blocks_per_line)]

\* `all` that tests for the empty tree only after it has drawn.
all_stops_after_drawing(show_progress, config, st, root) ==
    LET snapshot == sorted_snapshot(root.tree)
        drawn == draw(show_progress, config, st, snapshot, root)
    IN  IF ~config.keep_running_if_progress_is_empty /\ snapshot = <<>>
        THEN [drawn EXCEPT !.result = "empty"]
        ELSE drawn

\* all(out, progress, show_progress, state, config)
all(show_progress, config, st, root) ==
    LET snapshot == sorted_snapshot(root.tree)
    IN  IF ~config.keep_running_if_progress_is_empty /\ snapshot = <<>>
        THEN [result |-> "empty", out |-> <<>>, moved_up |-> None,
              state |-> [st EXCEPT !.tree = snapshot]]
        ELSE draw(show_progress, config, st, snapshot, root)

-----------------------------------------------------------------------------
(* src/line/draw.rs: `all` on a sink that may fail *)

\* The errors the sink returns from a write.
SinkErrors == {"BrokenPipe", "Other"}

\* The failures of a sink: its write number `at` returns `error`.
Sinks == [at : 1..MaxWrites, error : SinkErrors]

\* The writes a line takes: write! of the tokens and the write of the
\* newline with its padding, or the one writeln! of a line that only erases.
writes_of(line) == IF line.kind = "erase" THEN 1 ELSE 2

RECURSIVE write_count(_)
write_count(lines) ==
    IF lines = <<>> THEN 0 ELSE writes_of(Head(lines)) + write_count(Tail(lines))

\* The writes a call makes that no write fails.
writes_in_all(full) ==
    write_count(full.out) + (IF IsSome(full.moved_up) THEN 1 ELSE 0)

\* The lines among `lines`, from the first on, that `budget` writes complete.
RECURSIVE completed(_, _)
completed(lines, budget) ==
    IF lines = <<>> \/ writes_of(Head(lines)) > budget THEN <<>>
    ELSE <<Head(lines)>> \o completed(Tail(lines), budget - writes_of(Head(lines)))

\* The writes attempted by a call that carries on after a write has failed.
attempted_all(at, n) == n

\* The writes attempted by a call of n writes whose write `at` fails: every
\* write is followed by `?`, so the failed write is the last.
attempted(at, n) == at

\* all(out, progress, show_progress, state, config) on a sink whose write
\* `at` fails: what reached the sink, the error returned and the State left.
all_failing(show_progress, config, st, root, full, failure) ==
    LET snapshot == sorted_snapshot(root.tree)
        copy == copy_step(st, root)
        done == completed(full.out, failure.at - 1)
        \* the line the failed write belongs to, when it is not the MoveUp
        next == IF Len(done) < Len(full.out) THEN <<full.out[Len(done) + 1]>>
                ELSE <<>>
        \* its tokens were written and the write of its newline failed
        unfinished == IF next # <<>> /\ failure.at - 1 - write_count(done) = 1
                      THEN <<[next[1] EXCEPT !.kind = "unfinished", !.overdraw = 0]>>
                      ELSE <<>>
        is_message(l) == l.kind = "message"
        is_progress(l) == l.kind = "progress"
        \* the turns of the loop of `messages` that were entered
        started == Len(SelectSeq(done \o next, is_message))
        msgs == messages(SubSeq(copy.messages, 1, started), st.blocks_per_line,
                         st.max_message_origin_size, config.timestamp)
        \* the rows whose width was stored: newline_with_overdraw returned Ok
        rows == SelectSeq(done, is_progress)
        in_block == started = Len(copy.messages)
                    /\ (next = <<>> \/ ~is_message(next[1]))
        before == grown(msgs.blocks_per_line, Len(filtered(snapshot, config)))
        stored == [i \in 1..Len(before) |->
                     IF i <= Len(rows) THEN Len(rows[i].text) % U16 ELSE before[i]]
    IN  [result |-> failure.error,
         out |-> done \o unfinished,
         moved_up |-> None,
         written |-> attempted(failure.at, writes_in_all(full)),
         state |-> LineState(snapshot, copy.messages, Some(copy.cursor),
                             msgs.max_message_origin_size,
                             IF in_block THEN stored ELSE msgs.blocks_per_line)]

\* The sink fails during the call: it has a failure, at a write the call
\* comes to.
fails(full, failure) == IsSome(failure) /\ Unwrap(failure).at <= writes_in_all(full)

\* all(out, progress, show_progress, state, config) on the sink `failure`
\* describes (None for a sink that accepts every write), `full` being what
\* the call does when no write fails.
all_on_sink(show_progress, config, st, root, full, failure) ==
    IF fails(full, failure)
    THEN all_failing(show_progress, config, st, root, full, Unwrap(failure))
    ELSE [result |-> full.result, out |-> full.out, moved_up |-> full.moved_up,
          written |-> writes_in_all(full), state |-> full.state]

-----------------------------------------------------------------------------
(* The producers: the threads that change the tree *)

SetTask(i, v) ==
    /\ tree[i] # Some(v)
    /\ tree' = [tree EXCEPT ![i] = Some(v)]
    /\ UNCHANGED <<ring, total>>

RemoveTask(i) ==
    /\ IsSome(tree[i])
    /\ tree' = [tree EXCEPT ![i] = None]
    /\ UNCHANGED <<ring, total>>

\* A message is appended to the ring, which drops its oldest when full.
AppendMessage ==
    /\ total < MaxMessages
    /\ ring' = IF Len(ring) < RingCapacity THEN Append(ring, MessageAt(total + 1))
               ELSE Append(Tail(ring), MessageAt(total + 1))
    /\ total' = total + 1
    /\ UNCHANGED tree

-----------------------------------------------------------------------------
(* The line renderer: one call of `all` per tick *)

\* The line::draw::Options the callers pass (`colored` and `hide_cursor`
\* change no width and no line): a terminal of 12 columns that keeps running;
\* a narrow one that stops on an empty tree; a sink that is no terminal, with
\* timestamps; and a terminal that shows only the tasks of level 2.
DefaultConfig ==
    [level_filter |-> None,
     columns |-> 12,
     keep_running_if_progress_is_empty |-> TRUE,
     output_is_terminal |-> TRUE,
     timestamp |-> FALSE]

Configs ==
    { DefaultConfig,
      [DefaultConfig EXCEPT !.keep_running_if_progress_is_empty = FALSE,
                            !.columns = 4],
      [DefaultConfig EXCEPT !.output_is_terminal = FALSE, !.timestamp = TRUE],
      [DefaultConfig EXCEPT !.level_filter = Some([start |-> 2, end |-> 2])] }

\* The calls of `all`: show_progress with each of the configurations, and
\* no show_progress (the caller's initial delay) with the default one.
Calls ==
    {[show_progress |-> TRUE, config |-> c] : c \in Configs}
    \cup {[show_progress |-> FALSE, config |-> DefaultConfig]}

CurrentLineState ==
    LineState(state_tree, state_messages, for_next_copy,
              max_message_origin_size, blocks_per_line)

\* What a call found in the State.
Before(st) ==
    [blocks_per_line |-> st.blocks_per_line,
     for_next_copy |-> st.for_next_copy,
     max_message_origin_size |-> st.max_message_origin_size]

\* The `time` of the message lines among `lines`, in order.
MessageTimes(lines) ==
    LET is_message(l) == l.kind = "message"
        ms == SelectSeq(lines, is_message)
    IN  [i \in 1..Len(ms) |-> ms[i].of]

\* The messages appended that the renderer has not copied yet.
Unread == total - (IF IsSome(for_next_copy) THEN Unwrap(for_next_copy) ELSE 0)

\* A row of the terminal without its trailing blanks.
RECURSIVE Visible(_)
Visible(row) ==
    IF row = <<>> \/ row[Len(row)] # " " THEN row
    ELSE Visible(SubSeq(row, 1, Len(row) - 1))

\* A row of the terminal after `text` was written from its first column:
\* the cells beyond the text keep what they showed.
overwritten(row, text) == Visible(text \o SubSeq(row, Len(text) + 1, Len(row)))

\* The terminal after `lines` were written from the row `row` on, each line
\* with its padding and, unless the write of it failed, its newline.
RECURSIVE write_lines(_, _, _)
write_lines(rows, row, lines) ==
    IF lines = <<>> THEN [screen |-> rows, row |-> row]
    ELSE LET l == Head(lines)
             text == l.text \o Spaces(l.overdraw)
         IN  write_lines(IF row <= Len(rows)
                         THEN [rows EXCEPT ![row] = overwritten(@, text)]
                         ELSE Append(rows, Visible(text)),
                         IF l.kind = "unfinished" THEN row ELSE row + 1,
                         Tail(lines))

\* The terminal with the cursor on the row `row` of `rows`, or above them
\* (the rows above the rows kept are rows written earlier, shown as "?"):
\* the rows from the cursor down, and the rows above it.
from_cursor(rows, row) ==
    IF row >= 1
    THEN [above |-> SubSeq(rows, 1, row - 1), rows |-> SubSeq(rows, row, Len(rows))]
    ELSE [above |-> <<>>, rows |-> [i \in 1..(1 - row) |-> <<"?">>] \o rows]

\* all(out, progress, show_progress, state, config), `progress` being the
\* tree as the producers have left it by the time of the call and the sink
\* being one of `sinks` (None accepts every write, Some(f) fails as f says at
\* a write the call comes to).  A caller that gets an error of the sink
\* calls no more.
LineTick(progress, show_progress, config, sinks) ==
    /\ result \notin SinkErrors
    /\ \E root \in {[tree |-> progress, ring |-> ring, total |-> total]} :
       \E full \in {all(show_progress, config, CurrentLineState, root)} :
       \E failure \in {f \in sinks : f = None \/ fails(full, f)} :
       \E r \in {all_on_sink(show_progress, config, CurrentLineState, root,
                             full, failure)} :
       \E t \in {IF IsSome(screen) THEN write_lines(Unwrap(screen).rows, 1, r.out)
                  ELSE [screen |-> <<>>, row |-> 1]} :
        /\ tree' = progress
        /\ state_tree' = r.state.tree
        /\ state_messages' = r.state.messages
        /\ for_next_copy' = r.state.for_next_copy
        /\ max_message_origin_size' = r.state.max_message_origin_size
        /\ blocks_per_line' = r.state.blocks_per_line
        /\ out' = r.out
        /\ moved_up' = r.moved_up
        /\ result' = r.result
        /\ call' = Some([show_progress |-> show_progress, config |-> config])
        /\ prev_state' = Before(CurrentLineState)
        /\ rendered' = rendered \o MessageTimes(r.out)
        /\ sink' = failure
        /\ written' = r.written
        /\ out_before' =
              IF /\ IsSome(screen)
                 /\ result = "ok"
                 /\ r.result = "ok"
                 /\ call = Some([show_progress |-> show_progress, config |-> config])
                 /\ r.state.tree = state_tree
                 /\ Unread = 0
              THEN Some(out)
              ELSE None
        \* cursor::MoveUp(n): the cursor goes n rows up
        /\ screen' = IF IsSome(screen)
                      THEN Some(from_cursor(t.screen,
                                            t.row - (IF IsSome(r.moved_up)
                                                     THEN Unwrap(r.moved_up) ELSE 0)))
                      ELSE None
        /\ UNCHANGED <<overrun, ring, total, tuiVars, barVars, keyVars>>

\* A message is appended; the ring drops a message the renderer has not
\* copied yet when it is full of them.
LineAppendMessage ==
    /\ AppendMessage
    /\ overrun' = (overrun \/ (Len(ring) = RingCapacity /\ Unread >= RingCapacity))
    /\ UNCHANGED <<state_tree, state_messages, for_next_copy,
                   max_message_origin_size, blocks_per_line, out, moved_up,
                   result, call, prev_state, rendered, sink, written,
                   out_before, screen, tuiVars, barVars, keyVars>>

-----------------------------------------------------------------------------
(* src/tui/engine.rs: the events and the view-state *)

\* InterruptDrawInfo: Instantly, or Deferred(interrupt requested).
Instantly == [kind |-> "Instantly", requested |-> FALSE]
Deferred(requested) == [kind |-> "Deferred", requested |-> requested]

\* The keys that ask for an interrupt: Esc, 'q', Ctrl-c, Ctrl-[.
InterruptKeys == {"Esc", "q", "Ctrl-c", "Ctrl-["}
\* The keys that toggle a panel.
\* The keys are named by their character; "backtick" is the key Char('`').
ToggleKeys == {"backtick", "~", "[", "{"}
\* The keys that scroll.
ScrollKeys == {"J", "D", "j", "d", "K", "U", "k", "u"}
\* Keys without a match arm of their own.
OtherKeys == {"x", "Left"}
Keys == InterruptKeys \cup ToggleKeys \cup ScrollKeys \cup OtherKeys

Tick == [type |-> "Tick", arg |-> ""]
Input(key) == [type |-> "Input", arg |-> key]
SetWindowSize(bound) == [type |-> "SetWindowSize", arg |-> bound]
SetTitle(title) == [type |-> "SetTitle", arg |-> title]
SetInformation(info) == [type |-> "SetInformation", arg |-> info]
SetInterruptMode(mode) == [type |-> "SetInterruptMode", arg |-> mode]

\* The events that can change the view-state.
ViewEvents ==
    {Input(k) : k \in ToggleKeys \cup ScrollKeys}
    \cup {SetWindowSize("80x24"), SetTitle("renamed"), SetInformation("info")}
\* The events that cannot.
OtherEvents ==
    {Tick} \cup {Input(k) : k \in InterruptKeys \cup OtherKeys}
    \cup {SetInterruptMode("Instantly"), SetInterruptMode("Deferred")}
\* The events of the runs of the loop that are about interrupts and redraws:
\* every event that cannot change the view-state, and one that changes it.
LoopEvents ==
    ({Tick} \cup {Input(k) : k \in InterruptKeys \cup {"x"}}
     \cup {SetInterruptMode("Instantly"), SetInterruptMode("Deferred")})
    \cup {Input("j")}

\* draw::State { title, ..draw::State::default() }
InitialTuiState ==
    [title |-> "Progress Dashboard",
     information |-> "",
     hide_messages |-> FALSE,
     messages_fullscreen |-> FALSE,
     hide_info |-> FALSE,
     maximize_info |-> FALSE,
     task_offset |-> 0,
     message_offset |-> 0,
     user_provided_window_size |-> None,
     last_tree_column_width |-> None,
     next_tree_column_width |-> None]

\* An addition that wraps around instead.
wrapping_add(a, b) == (a + b) % U16

saturating_add(a, b) == Min(a + b, U16 - 1)
saturating_sub(a, b) == SatSub(a, b)

\* An interrupt key that breaks the loop once an interrupt is requested.
interrupt_key_breaks_when_requested(mode) ==
    IF mode.kind = "Instantly" \/ mode.requested
    THEN [break |-> TRUE, mode |-> mode]
    ELSE [break |-> FALSE, mode |-> Deferred(TRUE)]

\* An interrupt key that is deferred whatever the mode.
interrupt_key_always_deferred(mode) ==
    [break |-> FALSE, mode |-> Deferred(TRUE)]

\* The match arm of an interrupt key: whether the loop breaks, and the mode.
interrupt_key(mode) ==
    IF mode.kind = "Instantly"
    THEN [break |-> TRUE, mode |-> mode]
    ELSE [break |-> FALSE, mode |-> Deferred(TRUE)]

\* Event::SetInterruptMode whose Deferred forgets the requested interrupt.
set_interrupt_mode_forgetting_request(arg, mode) ==
    IF arg = "Instantly"
    THEN IF mode = Deferred(TRUE)
         THEN [break |-> TRUE, mode |-> mode]
         ELSE [break |-> FALSE, mode |-> Instantly]
    ELSE [break |-> FALSE, mode |-> Deferred(FALSE)]

\* Event::SetInterruptMode that does not look at the requested interrupt.
set_interrupt_mode_without_break(arg, mode) ==
    IF arg = "Instantly"
    THEN [break |-> FALSE, mode |-> Instantly]
    ELSE [break |-> FALSE,
          mode |-> Deferred(IF mode.kind = "Deferred" THEN mode.requested
                            ELSE FALSE)]

\* The match arm of Event::SetInterruptMode.
set_interrupt_mode(arg, mode) ==
    IF arg = "Instantly"
    THEN IF mode = Deferred(TRUE)
         THEN [break |-> TRUE, mode |-> mode]
         ELSE [break |-> FALSE, mode |-> Instantly]
    ELSE [break |-> FALSE,
          mode |-> Deferred(IF mode.kind = "Deferred" THEN mode.requested
                            ELSE FALSE)]

\* The match arms of the keys that change the view-state.
view_key(key, st) ==
    CASE key = "backtick" -> [st EXCEPT !.hide_messages = ~st.hide_messages]
      [] key = "~" -> [st EXCEPT !.messages_fullscreen = ~st.messages_fullscreen]
      [] key = "J" -> [st EXCEPT !.message_offset = saturating_add(st.message_offset, 1)]
      [] key = "D" -> [st EXCEPT !.message_offset = saturating_add(st.message_offset, 10)]
      [] key = "j" -> [st EXCEPT !.task_offset = saturating_add(st.task_offset, 1)]
      [] key = "d" -> [st EXCEPT !.task_offset = saturating_add(st.task_offset, 10)]
      [] key = "K" -> [st EXCEPT !.message_offset = saturating_sub(st.message_offset, 1)]
      [] key = "U" -> [st EXCEPT !.message_offset = saturating_sub(st.message_offset, 10)]
      [] key = "k" -> [st EXCEPT !.task_offset = saturating_sub(st.task_offset, 1)]
      [] key = "u" -> [st EXCEPT !.task_offset = saturating_sub(st.task_offset, 10)]
      [] key = "[" -> [st EXCEPT !.hide_info = ~st.hide_info]
      [] key = "{" -> [st EXCEPT !.maximize_info = ~st.maximize_info]

\* A key without a match arm of its own that is followed by a redraw.
other_key_redrawing == FALSE

\* `_ => skip_redraw = true`: skip_redraw after a key without a match arm of
\* its own.
other_key == TRUE

\* `match event { ... }`: whether the loop breaks, skip_redraw, and `state`
\* and `interrupt_mode` afterwards.
dispatch(event, st, mode) ==
    LET keep == [break |-> FALSE, skip_redraw |-> FALSE, state |-> st, mode |-> mode]
    IN  CASE event.type = "Tick" -> keep
          [] event.type = "Input" /\ event.arg \in InterruptKeys ->
                [keep EXCEPT !.break = interrupt_key(mode).break,
                             !.mode = interrupt_key(mode).mode]
          [] event.type = "Input" /\ event.arg \in ToggleKeys \cup ScrollKeys ->
                [keep EXCEPT !.state = view_key(event.arg, st)]
          [] event.type = "Input" /\ event.arg \in OtherKeys ->
                [keep EXCEPT !.skip_redraw = other_key]
          [] event.type = "SetWindowSize" ->
                [keep EXCEPT !.state.user_provided_window_size = Some(event.arg)]
          [] event.type = "SetTitle" -> [keep EXCEPT !.state.title = event.arg]
          [] event.type = "SetInformation" ->
                [keep EXCEPT !.state.information = event.arg]
          [] event.type = "SetInterruptMode" ->
                [keep EXCEPT !.break = set_interrupt_mode(event.arg, mode).break,
                             !.mode = set_interrupt_mode(event.arg, mode).mode]

-----------------------------------------------------------------------------
(* src/tui/engine.rs: render_with_input *)

\* TuiOptions, as far as the loop reads them.
TuiOptionSets ==
    [redraw_only_on_state_change : BOOLEAN,
     stop_if_empty_progress : BOOLEAN,
     recompute_column_width_every_nth_frame : {None, Some(2)}]

\* recompute_column_width_every_nth_frame.unwrap_or(1).max(1)
store_task_size_every(opts) ==
    IF IsSome(opts.recompute_column_width_every_nth_frame)
    THEN Max(Unwrap(opts.recompute_column_width_every_nth_frame), 1)
    ELSE 1

\* tick += 1.  Above MaxFrames the count is kept as the least number from 2
\* on with the same remainder modulo `every`.
next_tick(t, every) ==
    IF t + 1 <= MaxFrames THEN t + 1 ELSE 2 + ((t - 1) % every)

\* The width draw::all finds for the task column: the widest indented name.
RECURSIVE column_width(_)
column_width(snapshot) ==
    IF snapshot = <<>> THEN 0
    ELSE Max(Head(snapshot).level + Len(Head(snapshot).value.name),
             column_width(Tail(snapshot)))

\* draw::all(&mut state, ...): the view-state it leaves.
draw_all(st, snapshot) ==
    [st EXCEPT !.last_tree_column_width = Some(column_width(snapshot))]

\* The same without the first frame: the width is stored on every N-th frame
\* and while there is none.
store_column_width_not_on_first(st, t, every) ==
    IF \/ t % every = 0
       \/ (IF IsSome(st.last_tree_column_width)
           THEN Unwrap(st.last_tree_column_width) ELSE 0) = 0
    THEN [st EXCEPT !.next_tree_column_width = st.last_tree_column_width]
    ELSE st

\* if tick == 1 || tick % store_task_size_every == 0
\*    || state.last_tree_column_width.unwrap_or(0) == 0 { ... }
store_column_width(st, t, every) ==
    IF \/ t = 1
       \/ t % every = 0
       \/ (IF IsSome(st.last_tree_column_width)
           THEN Unwrap(st.last_tree_column_width) ELSE 0) = 0
    THEN [st EXCEPT !.next_tree_column_width = st.last_tree_column_width]
    ELSE st

\* `Some(prev) if prev == state`: the view-state is the recorded one.
state_unchanged(prev, st) == prev = Some(st)

\* The comparison of the trees, negated.
root_unchanged_negated(prev, t) == IsSome(prev) /\ ~deep_eq(Unwrap(prev), t)

\* `Some(prev) if prev.deep_eq(&progress)`: the tree is the recorded one.
root_unchanged(prev, t) == IsSome(prev) /\ deep_eq(Unwrap(prev), t)

\* Whether the loop breaks in the redraw pass.
stop_as_empty(opts, snapshot) == opts.stop_if_empty_progress /\ snapshot = <<>>

\* One iteration of `while let Some(event) = events.next().await`, up to the
\* comparison of the view-state.
Iteration(event) ==
    /\ pc = "poll"
    /\ event \in ViewEvents => view_changes < MaxViewChanges
    /\ \E d \in {dispatch(event, tui_state, interrupt_mode)} :
       LET check == ~d.break /\ ~d.skip_redraw /\ options.redraw_only_on_state_change
           unchanged == state_unchanged(previous_state, d.state)
       IN  /\ tui_state' = d.state
           /\ interrupt_mode' = d.mode
           /\ previous_state' = IF check THEN Some(d.state) ELSE previous_state
           /\ pc' = IF d.break THEN "done"
                    ELSE IF d.skip_redraw THEN "poll"
                    ELSE IF check /\ unchanged
                         THEN (IF IsSome(previous_root) THEN "deep_eq" ELSE "deep_clone")
                         ELSE "draw"
           /\ calm_at_dispatch' = calm
           /\ mode_at_dispatch' = interrupt_mode
           /\ calm' = [tick  |-> event = Tick \/ (calm.tick /\ d.state = tui_state),
                       check |-> (check /\ unchanged)
                                 \/ (calm.check /\ d.state = tui_state)]
    /\ view_changes' = IF event \in ViewEvents THEN view_changes + 1 ELSE view_changes
    /\ last_event' = event
    /\ redrawn' = FALSE
    /\ UNCHANGED <<tick, previous_root, entries, options, frame, treeVars,
                   lineVars, barVars>>

\* The same for an event of the ticker or of the caller's stream: it does not
\* come through the channel of the key reader.
HandleEvent(event) == Iteration(event) /\ UNCHANGED keyVars

\* prev.deep_eq(&progress)
DeepEq ==
    /\ pc = "deep_eq"
    /\ pc' = IF root_unchanged(previous_root, tree) THEN "poll" ELSE "deep_clone"
    /\ UNCHANGED <<tui_state, interrupt_mode, tick, previous_root, previous_state,
                   entries, options, view_changes, last_event, redrawn, calm,
                   calm_at_dispatch, mode_at_dispatch, frame, treeVars, lineVars,
                   barVars, keyVars>>

\* Some(progress.deep_clone())
DeepClone ==
    /\ pc = "deep_clone"
    /\ previous_root' = Some(deep_clone(tree))
    /\ pc' = "draw"
    /\ UNCHANGED <<tui_state, interrupt_mode, tick, previous_state, entries,
                   options, view_changes, last_event, redrawn, calm,
                   calm_at_dispatch, mode_at_dispatch, frame, treeVars, lineVars,
                   barVars, keyVars>>

\* `if !skip_redraw { ... }`: the redraw pass.
Draw ==
    /\ pc = "draw"
    /\ \E every \in {store_task_size_every(options)},
          snapshot \in {sorted_snapshot(tree)} :
       \E drawn \in {store_column_width(draw_all(tui_state, snapshot),
                                        next_tick(tick, every), every)} :
           /\ tick' = next_tick(tick, every)
           /\ entries' = snapshot
           /\ redrawn' = TRUE
           /\ IF stop_as_empty(options, snapshot)
              THEN /\ pc' = "done"
                   /\ UNCHANGED <<tui_state, calm, frame>>
              ELSE /\ pc' = "poll"
                   /\ tui_state' = drawn
                   /\ frame' = Some([state |-> tui_state, mode |-> interrupt_mode])
                   /\ calm' = IF drawn = tui_state THEN calm
                              ELSE [tick |-> FALSE, check |-> FALSE]
    /\ UNCHANGED <<interrupt_mode, previous_root, previous_state, options,
                   view_changes, last_event, calm_at_dispatch, mode_at_dispatch,
                   treeVars, lineVars, barVars, keyVars>>

\* The task values the producers set while the TUI runs: the tasks that
\* report progress.
TuiTaskValues == {v \in TaskValues : IsSome(v.progress)}

\* The producers, while the TUI runs.
NotCalm == [tick |-> FALSE, check |-> FALSE]

TuiSetTask(i, v) ==
    /\ SetTask(i, v)
    /\ calm' = NotCalm
    /\ calm_at_dispatch' = NotCalm
    /\ UNCHANGED <<pc, tui_state, interrupt_mode, tick, previous_root,
                   previous_state, entries, options, view_changes, last_event, redrawn,
                   mode_at_dispatch, frame, lineVars, barVars, keyVars>>

TuiRemoveTask(i) ==
    /\ RemoveTask(i)
    /\ calm' = NotCalm
    /\ calm_at_dispatch' = NotCalm
    /\ UNCHANGED <<pc, tui_state, interrupt_mode, tick, previous_root,
                   previous_state, entries, options, view_changes, last_event, redrawn,
                   mode_at_dispatch, frame, lineVars, barVars, keyVars>>

-----------------------------------------------------------------------------
(* The row formatter and the bar, called on their own *)

\* tree::Progress, as far as the renderer reads it.
Progress(step, done_at, unit) == [step |-> step, done_at |-> done_at, unit |-> unit]

\* The bounds a progress is given: none, zero, and every bound from the step
\* on (fraction is within [0, 1], section 3 of the specification).
DoneAts(step) == {None, Some(0)} \cup {Some(d) : d \in Max(step, 1)..MaxStep}

\* The progress of the example of the specification: step 5 of 10.
HalfDone == Progress(5, Some(10), None)

Units == {None, Some(<<"k", "B">>)}

\* The progresses of the given steps and units, with each of their bounds.
Progresses(steps, units) ==
    UNION {{Progress(s, d, u) : d \in DoneAts(s), u \in units} : s \in steps}

\* The arguments of draw_progress_bar.
BarCalls ==
    [p : Progresses(0..MaxStep, {None}),
     blocks_available : 0..MaxColumns]

\* The arguments of format_progress: the level of the key, the value and the
\* column count (up to MaxColumns, and the 40 columns of the example).
FormatCalls ==
    [level : 1..2,
     value : {[name |-> n, progress |-> Some(q)] :
                  n \in {<<"t">>, <<"b", "u", "i", "l", "d">>},
                  q \in Progresses({0, 3, MaxStep}, Units)}
             \cup {[name |-> <<"b", "u", "i", "l", "d">>, progress |-> Some(HalfDone)],
                   [name |-> <<"b", "u", "i", "l", "d">>, progress |-> None]},
     column_count : 0..MaxColumns \cup {40}]

\* draw_progress_bar(p, style, blocks_available, colored, buf)
DrawProgressBar ==
    /\ IsSome(bar_call)
    /\ bar = None
    /\ bar' = Some(draw_progress_bar(Unwrap(bar_call).p,
                                     Unwrap(bar_call).blocks_available))
    /\ UNCHANGED <<bar_call, bar_before, fmt_call, buf, treeVars, lineVars, tuiVars,
                   keyVars>>

\* The producer advances the step of the progress by one; the bar is then
\* drawn anew with the same columns.
IncStep ==
    /\ IsSome(bar_call)
    /\ IsSome(bar)
    /\ Unwrap(bar_call).p.step < MaxStep
    /\ Unwrap(bar_call).p.done_at \in DoneAts(Unwrap(bar_call).p.step + 1)
    /\ bar_call' = Some([Unwrap(bar_call) EXCEPT !.p.step = @ + 1])
    /\ bar_before' = bar
    /\ bar' = None
    /\ UNCHANGED <<fmt_call, buf, treeVars, lineVars, tuiVars,
                   keyVars>>

\* format_progress(key, value, column_count, colored, buf)
FormatProgress ==
    /\ IsSome(fmt_call)
    /\ buf = None
    /\ buf' = Some(format_progress(Unwrap(fmt_call).level, Unwrap(fmt_call).value,
                                   Unwrap(fmt_call).column_count))
    /\ UNCHANGED <<bar_call, bar, bar_before, fmt_call, treeVars, lineVars, tuiVars,
                   keyVars>>

-----------------------------------------------------------------------------
(* The specifications *)

\* The tree before any producer ran.
TreeInit == tree = EmptyTree /\ ring = <<>> /\ total = 0

\* State::default() of the line renderer, before the first call.
LineStateInit ==
    /\ state_tree = <<>>
    /\ state_messages = <<>>
    /\ for_next_copy = None
    /\ max_message_origin_size = 0
    /\ blocks_per_line = <<>>
    /\ out = <<>>
    /\ moved_up = None
    /\ result = "none"
    /\ call = None
    /\ prev_state = Before(LineState(<<>>, <<>>, None, 0, <<>>))
    /\ rendered = <<>>
    /\ overrun = FALSE
    /\ sink = None
    /\ written = 0
    /\ out_before = None
    /\ screen = None

\* The locals of render_with_input when the loop is entered.
TuiStateInit(opts) ==
    /\ pc = "poll"
    /\ tui_state = InitialTuiState
    /\ interrupt_mode = Instantly
    /\ tick = 0
    /\ previous_root = None
    /\ previous_state = None
    /\ entries = <<>>
    /\ options = opts
    /\ view_changes = 0
    /\ last_event = [type |-> "none", arg |-> ""]
    /\ redrawn = FALSE
    /\ calm = NotCalm
    /\ calm_at_dispatch = NotCalm
    /\ mode_at_dispatch = Instantly
    /\ frame = None

\* Neither the row formatter nor the bar is called on its own.
BarIdle ==
    /\ bar_call = None
    /\ bar = None
    /\ bar_before = None
    /\ fmt_call = None
    /\ buf = None

\* No key reader runs.
KeyIdle ==
    /\ stdin = <<>>
    /\ keys_read = <<>>
    /\ key_send = None
    /\ key_receive = <<>>
    /\ delivered = <<>>

\* The line renderer over a tree that producers change.
LineInit ==
    /\ TreeInit
    /\ LineStateInit
    /\ BarIdle
    /\ KeyIdle
    /\ TuiStateInit([redraw_only_on_state_change |-> FALSE,
                     stop_if_empty_progress |-> FALSE,
                     recompute_column_width_every_nth_frame |-> None])

LineNext ==
    \/ \E progress \in Trees, c \in Calls :
          LineTick(progress, c.show_progress, c.config, {None})
    \/ LineAppendMessage

LineSpec == LineInit /\ [][LineNext]_vars

\* The calls of `all` on a sink of which a write may fail: with and without
\* show_progress, on a terminal.
SinkCalls == {c \in Calls : c.config = DefaultConfig}

\* The line renderer on a sink of which a write may fail.
SinkNext ==
    \/ \E progress \in Trees, c \in SinkCalls :
          LineTick(progress, c.show_progress, c.config,
                   {None} \cup {Some(f) : f \in Sinks})
    \/ LineAppendMessage

SinkSpec == LineInit /\ [][SinkNext]_vars

\* The calls of `all` on a terminal: show_progress with every level and with
\* the tasks of level 2 only, and no show_progress.
TerminalCalls ==
    {c \in Calls : c.config.output_is_terminal
                   /\ c.config.keep_running_if_progress_is_empty}

\* The line renderer on a terminal that is looked at, blank at first.
TerminalInit ==
    /\ TreeInit
    /\ \E st \in {LineState(<<>>, <<>>, None, 0, <<>>)} :
          /\ state_tree = st.tree
          /\ state_messages = st.messages
          /\ for_next_copy = st.for_next_copy
          /\ max_message_origin_size = st.max_message_origin_size
          /\ blocks_per_line = st.blocks_per_line
          /\ prev_state = Before(st)
    /\ out = <<>>
    /\ moved_up = None
    /\ result = "none"
    /\ call = None
    /\ rendered = <<>>
    /\ overrun = FALSE
    /\ sink = None
    /\ written = 0
    /\ out_before = None
    /\ screen = Some([above |-> <<>>, rows |-> <<>>])
    /\ BarIdle
    /\ KeyIdle
    /\ TuiStateInit([redraw_only_on_state_change |-> FALSE,
                     stop_if_empty_progress |-> FALSE,
                     recompute_column_width_every_nth_frame |-> None])

TerminalNext ==
    \/ \E progress \in Trees, c \in TerminalCalls :
          LineTick(progress, c.show_progress, c.config, {None})
    \/ LineAppendMessage

TerminalSpec == TerminalInit /\ [][TerminalNext]_vars

\* The TUI event loop over a tree that producers change.
TuiInit ==
    /\ TreeInit
    /\ LineStateInit
    /\ BarIdle
    /\ KeyIdle
    /\ \E opts \in TuiOptionSets : TuiStateInit(opts)

TuiNext ==
    \/ \E event \in LoopEvents : HandleEvent(event)
    \/ DeepEq
    \/ DeepClone
    \/ Draw
    \/ \E i \in Slots, v \in TuiTaskValues : TuiSetTask(i, v)
    \/ \E i \in Slots : TuiRemoveTask(i)

TuiSpec == TuiInit /\ [][TuiNext]_vars

\* The same, with the scheduling of the loop: the ticker keeps sending Tick
\* events and the loop handles each, and a started iteration runs on.
TuiFairSpec ==
    /\ TuiSpec
    /\ SF_vars(HandleEvent(Tick))
    /\ WF_vars(DeepEq)
    /\ WF_vars(DeepClone)
    /\ WF_vars(Draw)

\* The row formatter and the bar, each called on arguments of its own.
BarInit ==
    /\ TreeInit
    /\ LineStateInit
    /\ TuiStateInit([redraw_only_on_state_change |-> FALSE,
                     stop_if_empty_progress |-> FALSE,
                     recompute_column_width_every_nth_frame |-> None])
    /\ KeyIdle
    /\ bar = None
    /\ bar_before = None
    /\ buf = None
    /\ \/ (\E c \in BarCalls : bar_call = Some(c)) /\ fmt_call = None
       \/ (\E c \in FormatCalls : fmt_call = Some(c)) /\ bar_call = None

BarNext ==
    \/ DrawProgressBar
    \/ IncStep
    \/ FormatProgress

BarSpec == BarInit /\ [][BarNext]_vars

-----------------------------------------------------------------------------
(* The line renderer: properties of a call of `all` *)

\* The latest call of `all` returned Ok.
Succeeded == result = "ok"

\* The latest call ran the block under `show_progress && output_is_terminal`.
ShowedProgress ==
    /\ IsSome(call)
    /\ Unwrap(call).show_progress
    /\ Unwrap(call).config.output_is_terminal

\* The lines of the latest call of the given kinds, in the order written.
LinesOf(kinds) ==
    LET is_kind(l) == l.kind \in kinds
    IN  SelectSeq(out, is_kind)

\* The lines the latest cursor::MoveUp went up; 0 when none was written.
MovedUp == IF IsSome(moved_up) THEN Unwrap(moved_up) ELSE 0

\* The width the previous call stored for the r-th row slot; 0 without one.
StoredBefore(r) ==
    IF r <= Len(prev_state.blocks_per_line) THEN prev_state.blocks_per_line[r] ELSE 0

\* The messages copied so far: the cursor kept for the next copy.
Cursor == IF IsSome(for_next_copy) THEN Unwrap(for_next_copy) ELSE 0

\* C1: a call with keep_running_if_progress_is_empty = false that finds the
\* snapshot empty returns the empty-progress error, writes no line and no
\* cursor movement, and leaves the message cursor, blocks_per_line and
\* max_message_origin_size as it found them, whatever the state and however
\* many messages are pending.
C1_EmptyStopWritesNothing ==
    (/\ IsSome(call)
     /\ ~Unwrap(call).config.keep_running_if_progress_is_empty
     /\ state_tree = <<>>)
    => /\ result = "empty"
       /\ out = <<>>
       /\ moved_up = None
       /\ for_next_copy = prev_state.for_next_copy
       /\ blocks_per_line = prev_state.blocks_per_line
       /\ max_message_origin_size = prev_state.max_message_origin_size

\* C1 happens: the error was returned with messages pending and widths stored.
C1_Witness ==
    /\ result = "empty"
    /\ Unread > 0
    /\ blocks_per_line # <<>>
    /\ IsSome(for_next_copy)

\* C2 as stated: after a successful call the cursor has moved up as many
\* lines as the call wrote.
C2_MoveUpCountsEveryRow == Succeeded => MovedUp = Len(out)

\* C2, amended: after a successful call the cursor has moved up (modulo 2^16)
\* as many lines as the call wrote below its message lines, the progress rows
\* and the lines that only erase; the message lines are not rewound, and
\* without show_progress or on no terminal nothing but message lines is
\* written and the cursor is not moved.
C2_MoveUpCountsProgressBlock ==
    Succeeded =>
        /\ MovedUp = Len(LinesOf({"progress", "erase"})) % U16
        /\ IsSome(moved_up) <=> ShowedProgress
        /\ ~ShowedProgress => LinesOf({"progress", "erase"}) = <<>>
        /\ \A i \in 1..Len(out) :
              out[i].kind = "message" <=> i <= Len(LinesOf({"message"}))

\* C2 happens: a call wrote message lines and then a progress row, and moved
\* the cursor up by fewer lines than it wrote.
C2_Witness ==
    /\ Succeeded
    /\ LinesOf({"message"}) # <<>>
    /\ LinesOf({"progress"}) # <<>>
    /\ MovedUp > 0
    /\ MovedUp < Len(out)

\* C3 as stated: after a successful call blocks_per_line has one width per
\* row written, message lines and progress rows alike.
C3_WidthPerRowWritten ==
    Succeeded => Len(blocks_per_line) = Len(LinesOf({"message", "progress"}))

\* C3, amended: after a successful call with show_progress on a terminal,
\* blocks_per_line has one width per progress row written (none for message
\* lines or erasing lines); after any other successful call it has the widths
\* it had before, less one per message line written, and none when there
\* were fewer.
C3_WidthPerProgressRow ==
    Succeeded =>
        IF ShowedProgress
        THEN Len(blocks_per_line) = Len(LinesOf({"progress"}))
        ELSE /\ Len(blocks_per_line) =
                    SatSub(Len(prev_state.blocks_per_line), Len(LinesOf({"message"})))
             /\ blocks_per_line =
                    LastN(prev_state.blocks_per_line, Len(blocks_per_line))

\* C3 happens: a call wrote message lines and a progress row.
C3_Witness ==
    /\ Succeeded
    /\ ShowedProgress
    /\ LinesOf({"message"}) # <<>>
    /\ LinesOf({"progress"}) # <<>>

\* C4: the r-th row a successful call writes (message lines, then progress
\* rows) is followed by p - c spaces when the width p stored for the r-th
\* row by the previous call exceeds its width c, and by none otherwise; the
\* width stored for a progress row afterwards is c.
C4_OverdrawCoversPreviousRow ==
    Succeeded =>
        /\ \A r \in 1..Len(LinesOf({"message", "progress"})) :
              LET row == LinesOf({"message", "progress"})[r]
                  p   == StoredBefore(r)
                  c   == Len(row.text)
              IN  row.overdraw = IF c < p THEN p - c ELSE 0
        /\ ShowedProgress =>
              \A j \in 1..Len(LinesOf({"progress"})) :
                  /\ j <= Len(blocks_per_line)
                  /\ blocks_per_line[j] = Len(LinesOf({"progress"})[j].text)

\* C4 happens: a progress row narrower than the row it overwrites.
C4_Witness ==
    /\ Succeeded
    /\ \E r \in 1..Len(LinesOf({"message", "progress"})) :
          LET row == LinesOf({"message", "progress"})[r]
          IN  /\ row.kind = "progress"
              /\ Len(row.text) < StoredBefore(r)
              /\ row.overdraw > 0

\* C5: as long as the ring has dropped no message before it was copied, the
\* messages rendered so far are exactly the messages appended up to the
\* latest copy, each once and in the order of appending.
C5_MessagesRenderedOnceInOrder ==
    ~overrun => rendered = [i \in 1..Cursor |-> i]

\* C5 happens: three messages rendered over several calls, the latest call
\* rendering only the one appended since the call before.
C5_Witness ==
    /\ ~overrun
    /\ Len(rendered) >= 3
    /\ Len(state_messages) = 1
    /\ Succeeded
    /\ LinesOf({"message"}) # <<>>

-----------------------------------------------------------------------------
(* The TUI event loop: properties of render_with_input *)

\* The events of the keys that ask for an interrupt.
InterruptInputs == {Input(k) : k \in InterruptKeys}

\* The locals of the loop and what its latest iteration did.
LoopLocals ==
    <<pc, tui_state, interrupt_mode, tick, previous_root, previous_state,
      entries, last_event, redrawn>>

\* The current/latest iteration runs, or has run, the redraw pass.
Redraws == redrawn \/ pc \in {"deep_clone", "draw"}

C7_DeferredInterruptThenInstantly ==
    /\ [](/\ (last_event \in InterruptInputs /\ mode_at_dispatch.kind = "Deferred")
             => (interrupt_mode = Deferred(TRUE) /\ (pc = "done" => redrawn))
          /\ (/\ last_event = SetInterruptMode("Instantly")
              /\ mode_at_dispatch = Deferred(TRUE))
             => (pc = "done" /\ ~redrawn))
    /\ [][pc = "done" => UNCHANGED LoopLocals]_vars

\* C7 happens: the loop ended on SetInterruptMode(Instantly) with an
\* interrupt requested in Deferred mode.
C7_Witness ==
    /\ pc = "done"
    /\ last_event = SetInterruptMode("Instantly")
    /\ mode_at_dispatch = Deferred(TRUE)
    /\ ~redrawn
    /\ tick > 0

\* The events the statement of C8 lets end the loop.
ExitEvents == InterruptInputs \cup {SetInterruptMode("Instantly")}

\* C8 as stated: in Deferred mode with an interrupt requested, the loop ends
\* when SetInterruptMode(Instantly) or a further interrupt key arrives, and
\* in Deferred mode nothing else ends it.
C8_ExitsOnInstantlyOrInterruptKey ==
    /\ (last_event \in ExitEvents /\ mode_at_dispatch = Deferred(TRUE))
       => pc = "done"
    /\ (pc = "done" /\ interrupt_mode.kind = "Deferred")
       => (last_event \in ExitEvents /\ ~redrawn)

\* C8, amended: in Deferred mode with an interrupt requested, the loop ends
\* while handling an event exactly when SetInterruptMode(Instantly) arrives;
\* a further interrupt key leaves it running with the interrupt requested.
\* In Deferred mode nothing else ends the loop but the redraw pass that
\* finds the snapshot empty with stop_if_empty_progress.
C8_ExitsOnInstantlyOrEmptyProgress ==
    /\ (last_event = SetInterruptMode("Instantly")
        /\ mode_at_dispatch = Deferred(TRUE))
       => (pc = "done" /\ ~redrawn)
    /\ (last_event \in InterruptInputs /\ mode_at_dispatch = Deferred(TRUE))
       => (interrupt_mode = Deferred(TRUE) /\ (pc = "done" => redrawn))
    /\ (pc = "done" /\ interrupt_mode.kind = "Deferred")
       => \/ /\ ~redrawn
             /\ last_event = SetInterruptMode("Instantly")
             /\ mode_at_dispatch = Deferred(TRUE)
          \/ /\ redrawn
             /\ options.stop_if_empty_progress
             /\ entries = <<>>

\* C8 happens: a further interrupt key arrived with an interrupt requested,
\* and the loop ran its redraw pass and polls again.
C8_Witness ==
    /\ last_event \in InterruptInputs
    /\ mode_at_dispatch = Deferred(TRUE)
    /\ interrupt_mode = Deferred(TRUE)
    /\ redrawn
    /\ pc = "poll"

\* C9: the loop starts in Instantly mode; an interrupt key handled in
\* Instantly mode breaks the loop without a redraw pass or a change of the
\* view-state, the frame count or the mode, and nothing is handled after.
C9_InstantInterrupt ==
    /\ [](/\ last_event.type = "none" => interrupt_mode = Instantly
          /\ (last_event \in InterruptInputs /\ mode_at_dispatch = Instantly)
             => (pc = "done" /\ ~redrawn /\ interrupt_mode = Instantly))
    /\ [][(pc = "poll" /\ pc' = "done")
          => (tui_state' = tui_state /\ tick' = tick /\ entries' = entries)]_vars
    /\ [][pc = "done" => UNCHANGED LoopLocals]_vars

\* C9 happens: the loop ended on an interrupt key in Instantly mode, after it
\* had drawn frames.
C9_Witness ==
    /\ pc = "done"
    /\ last_event \in InterruptInputs
    /\ mode_at_dispatch = Instantly
    /\ ~redrawn
    /\ tick > 0

\* C10 as stated: with stop_if_empty_progress, once the tree is empty and
\* stays empty while Tick events keep arriving, the loop ends.
C10_StopsOnceEmpty ==
    options.stop_if_empty_progress =>
        (<>[](tree = EmptyTree) => <>(pc = "done"))

-----------------------------------------------------------------------------
(* The row formatter and the bar: properties of format_progress and of     *)
(* draw_progress_bar                                                       *)

\* The arguments of the latest call of draw_progress_bar.
BarProgress == Unwrap(bar_call).p
BarWidth == Unwrap(bar_call).blocks_available

\* The text of the bar drawn, and of the bar drawn before the step advanced.
BarText == Flatten(Unwrap(bar))
BarTextBefore == Flatten(Unwrap(bar_before))

\* The text of the row format_progress left in `buf`.
RowText == Flatten(Unwrap(buf))

\* The progress of the value format_progress was called on.
RowProgress == Unwrap(Unwrap(fmt_call).value.progress)

\* The width of the prefix of that row: indent, name, counters and unit.
PrefixWidth ==
    Unwrap(fmt_call).level + Len(Unwrap(fmt_call).value.name) + 1
    + Len(Digits(RowProgress.step))
    + (IF IsSome(RowProgress.done_at)
       THEN 3 + Len(Digits(Unwrap(RowProgress.done_at))) ELSE 0)
    + (IF IsSome(RowProgress.unit) THEN 1 + Len(Unwrap(RowProgress.unit)) ELSE 0)

\* format_progress was called on a value with progress, and has returned.
FormattedProgress == IsSome(buf) /\ IsSome(Unwrap(fmt_call).value.progress)

\* C11: a determinate bar drawn for W >= 4 columns and a fraction within
\* [0, 1] is " [", floor((W-4)*f) equal signs, one '>', the spaces that fill
\* up W-4, and "]", W columns in all; so a row with a determinate progress
\* whose prefix leaves at least 4 columns is column_count wide (the row of
\* build, step 5 of 10, level 1, in 40 columns is 40 wide).
C11_DeterminateBarFillsWidth ==
    /\ (IsSome(bar) /\ BarWidth >= 4 /\ IsSome(fraction(BarProgress))) =>
          LET f == Unwrap(fraction(BarProgress))
              filled == ((BarWidth - 4) * f.num) \div f.den
          IN  /\ BarText = <<" ", "[">> \o Equals(filled) \o <<">">>
                           \o Spaces(BarWidth - 4 - filled) \o <<"]">>
              /\ Len(BarText) = BarWidth
    /\ (/\ FormattedProgress
        /\ IsSome(fraction(RowProgress))
        /\ Unwrap(fmt_call).column_count - PrefixWidth >= 4) =>
          Len(RowText) = Unwrap(fmt_call).column_count
    /\ (/\ IsSome(buf)
        /\ fmt_call = Some([level |-> 1,
                            value |-> [name |-> <<"b", "u", "i", "l", "d">>,
                                       progress |-> Some(HalfDone)],
                            column_count |-> 40])) =>
          Len(RowText) = 40

\* C11 happens: a bar of 8 columns or more was drawn for a fraction strictly
\* between 0 and 1.
C11_Witness ==
    /\ IsSome(bar)
    /\ BarWidth >= 8
    /\ IsSome(fraction(BarProgress))
    /\ 0 < BarProgress.step
    /\ BarProgress.step < Unwrap(BarProgress.done_at)
    /\ Len(BarText) = BarWidth

\* The glyphs between the brackets of a bar.
Marquee(text) == SubSeq(text, 3, Len(text) - 1)

\* The bar was drawn, the step advanced by one, and the bar was drawn anew
\* with the same columns, the progress having no fraction.
MarqueeAdvanced ==
    /\ IsSome(bar)
    /\ IsSome(bar_before)
    /\ fraction(BarProgress) = None

\* C12 as stated: when the step of an indeterminate bar advances by one, the
\* glyph at position j moves to position j - 1 (right to left), for every step
\* and every width.
C12_MarqueeShiftsRightToLeft ==
    MarqueeAdvanced =>
        \A j \in 2..Len(Marquee(BarText)) :
            Marquee(BarTextBefore)[j] = Marquee(BarText)[j - 1]

\* C12, amended: when the step of an indeterminate bar advances by one, the
\* width of the marquee stays, the glyph at position j moves to position j + 1
\* (left to right on the screen), and the glyph that enters at the first
\* position is the glyph of the cycle at (step + width - 1) mod 6, for every
\* step and every width.
C12_MarqueeShiftsLeftToRight ==
    MarqueeAdvanced =>
        LET now == Marquee(BarText)
            before == Marquee(BarTextBefore)
        IN  /\ Len(now) = Len(before)
            /\ Len(now) = SatSub(BarWidth, 3)
            /\ \A j \in 1..(Len(now) - 1) : before[j] = now[j + 1]
            /\ Len(now) > 0 =>
                  now[1] = CHARS[((BarProgress.step + Len(now) - 1) % 6) + 1]

\* C12 happens: a marquee of 6 glyphs or more was drawn anew after the step
\* advanced past the end of the cycle.
C12_Witness ==
    /\ MarqueeAdvanced
    /\ BarProgress.done_at = None
    /\ BarProgress.step >= 6
    /\ Len(Marquee(BarText)) >= 6

\* A bar of 9 columns was drawn for a progress without done_at.
NineColumnMarquee ==
    /\ IsSome(bar)
    /\ BarProgress.done_at = None
    /\ BarWidth = 9

\* C13 as stated: for a progress without done_at and 9 columns there are 6
\* glyphs between the brackets: three spaces and "===" at step 0, and two
\* spaces, "===" and one space at step 1.
C13_MarqueeAtStepOneCentred ==
    NineColumnMarquee =>
        /\ Len(Marquee(BarText)) = 6
        /\ BarProgress.step = 0 =>
              Marquee(BarText) = <<" ", " ", " ", "=", "=", "=">>
        /\ BarProgress.step = 1 =>
              Marquee(BarText) = <<" ", " ", "=", "=", "=", " ">>

\* C13, amended: for a progress without done_at and 9 columns there are 6
\* glyphs between the brackets: three spaces and "===" at step 0, and "=",
\* three spaces and "==" at step 1 (the reverse of the glyphs 1 to 6 of the
\* repeated cycle).
C13_MarqueeAtStepOneWrapped ==
    NineColumnMarquee =>
        /\ Len(Marquee(BarText)) = 6
        /\ BarProgress.step = 0 =>
              Marquee(BarText) = <<" ", " ", " ", "=", "=", "=">>
        /\ BarProgress.step = 1 =>
              Marquee(BarText) = <<"=", " ", " ", " ", "=", "=">>

\* C13 happens: the bar of 9 columns was drawn at step 0, and again at step 1.
C13_Witness ==
    /\ NineColumnMarquee
    /\ BarProgress.step = 1
    /\ IsSome(bar_before)
    /\ Marquee(BarTextBefore) = <<" ", " ", " ", "=", "=", "=">>

\* C17 as stated: for an entry with progress the row is never wider than the
\* larger of column_count and the width of its prefix, and no bar is emitted
\* when the prefix leaves no column.
C17_BarKeepsRowWithinBudget ==
    FormattedProgress =>
        /\ Len(RowText) <= Max(Unwrap(fmt_call).column_count, PrefixWidth)
        /\ Unwrap(fmt_call).column_count - PrefixWidth <= 0 =>
              Len(RowText) = PrefixWidth

-----------------------------------------------------------------------------
(* The line renderer: more properties of a call of `all` *)

\* The message lines of the latest call, in the order written.
MessageLines == LinesOf({"message"})

\* The width of a message line without the padding of its origin: the
\* leading space, the timestamp and its space, the origin, a space, the text.
UnpaddedWidth(m) ==
    1 + (IF Unwrap(call).config.timestamp
         THEN Len(format_time_for_messages(m.time)) + 1 ELSE 0)
    + Len(m.origin) + 1 + Len(m.message)

\* fill_size: the spaces written before the origin of the i-th message line.
FillSize(i) ==
    Len(MessageLines[i].text) - UnpaddedWidth(MessageAt(MessageLines[i].of))

\* C16: max_message_origin_size never decreases, and for every message line
\* written it is at least the width of the origin of the message: the origin
\* is padded to a width between the size the call found and the size it
\* left, with a padding that is not negative.
C16_MaxOriginNeverDecreases ==
    /\ [][max_message_origin_size' >= max_message_origin_size]_vars
    /\ [](\A i \in 1..Len(MessageLines) :
            LET origin == MessageAt(MessageLines[i].of).origin
            IN  /\ FillSize(i) >= 0
                /\ max_message_origin_size >= Len(origin)
                /\ FillSize(i) + Len(origin) >= prev_state.max_message_origin_size
                /\ FillSize(i) + Len(origin) <= max_message_origin_size)

\* C16 happens: a message with an origin narrower than the widest seen was
\* written with its origin padded.
C16_Witness ==
    /\ Succeeded
    /\ \E i \in 1..Len(MessageLines) :
          /\ FillSize(i) > 0
          /\ Len(MessageAt(MessageLines[i].of).origin) < max_message_origin_size
          /\ prev_state.max_message_origin_size = max_message_origin_size

\* The bytes `lines` put on the sink, cursor movements left out: the text of
\* each line, its padding and its newline.
RECURSIVE Bytes(_)
Bytes(lines) ==
    IF lines = <<>> THEN <<>>
    ELSE Head(lines).text \o Spaces(Head(lines).overdraw) \o <<"\n">>
         \o Bytes(Tail(lines))

\* The progress rows among `lines`, without their padding.
RowsUnpadded(lines) ==
    LET is_progress(l) == l.kind = "progress"
        rows == SelectSeq(lines, is_progress)
    IN  [i \in 1..Len(rows) |-> [rows[i] EXCEPT !.overdraw = 0]]

\* The latest two calls of `all` succeeded with the same arguments on the
\* same snapshot, and no message was appended between them.
RenderedTwice == IsSome(out_before) /\ Succeeded

\* C14 as stated: the second of two such calls writes the bytes the first
\* wrote, whatever State the first started from.
C14_SameSnapshotSameBytes ==
    RenderedTwice => Bytes(out) = Bytes(Unwrap(out_before))

\* C14, amended: the second of two such calls writes the progress rows the
\* first wrote, without padding, and nothing else; so it writes the bytes the
\* first wrote exactly when the first wrote no message line, no padding and
\* no line that only erases.
C14_SameSnapshotSameRows ==
    RenderedTwice =>
        /\ Bytes(out) = Bytes(RowsUnpadded(Unwrap(out_before)))
        /\ (Bytes(out) = Bytes(Unwrap(out_before)))
           <=> (\A i \in 1..Len(Unwrap(out_before)) :
                    /\ Unwrap(out_before)[i].kind = "progress"
                    /\ Unwrap(out_before)[i].overdraw = 0)

\* C14 happens: the first call wrote a message line and a row, the second
\* the row alone.
C14_Witness ==
    /\ RenderedTwice
    /\ Len(out) = 1
    /\ out[1].kind = "progress"
    /\ Len(Unwrap(out_before)) = 2
    /\ Unwrap(out_before)[1].kind = "message"
    /\ Unwrap(out_before)[2].text = out[1].text

\* The writes of the latest call that the sink accepted.
WritesDone ==
    LET RECURSIVE done(_)
        done(lines) ==
            IF lines = <<>> THEN 0
            ELSE (IF Head(lines).kind \in {"erase", "unfinished"} THEN 1 ELSE 2)
                 + done(Tail(lines))
    IN  done(out) + (IF IsSome(moved_up) THEN 1 ELSE 0)

KeysOf(snapshot) == [i \in 1..Len(snapshot) |-> snapshot[i].key]
RowKeys == [i \in 1..Len(LinesOf({"progress"})) |-> LinesOf({"progress"})[i].of]

\* C19: after a successful call with show_progress on a terminal, the rows of
\* the terminal from the cursor down show the rows of the entries of the
\* snapshot within the level filter, in the order of the snapshot, each with
\* nothing after its text, and every row below them is blank; the rows the
\* call left above the cursor show its message lines, each with nothing
\* after its text.
C19_ScreenShowsCurrentRows ==
    (Succeeded /\ ShowedProgress /\ IsSome(screen)) =>
        LET rows == LinesOf({"progress"})
            shown == Unwrap(screen).rows
            above == Unwrap(screen).above
        IN  /\ RowKeys = KeysOf(filtered(state_tree, Unwrap(call).config))
            /\ Len(shown) >= Len(rows)
            /\ \A i \in 1..Len(shown) :
                  shown[i] = IF i <= Len(rows) THEN Visible(rows[i].text) ELSE <<>>
            /\ Len(above) = Len(MessageLines)
            /\ \A i \in 1..Len(above) : above[i] = Visible(MessageLines[i].text)

\* C19 happens: a message line was written over a wider row, and the row was
\* written below it, where no row had been.
C19_Witness ==
    /\ Succeeded
    /\ ShowedProgress
    /\ IsSome(screen)
    /\ Len(MessageLines) = 1
    /\ MessageLines[1].overdraw > 0
    /\ Len(LinesOf({"progress"})) = 1
    /\ Unwrap(screen).rows = <<Visible(LinesOf({"progress"})[1].text)>>

-----------------------------------------------------------------------------
(* The TUI event loop: more properties of render_with_input *)

\* C20: once the mode is Deferred with an interrupt requested it stays so to
\* the end of the loop, through further interrupt keys and further
\* SetInterruptMode(Deferred); SetInterruptMode(Instantly) handled in that
\* mode ends the loop; SetInterruptMode(Deferred) handled in Instantly mode
\* gives Deferred with no interrupt requested.
C20_RequestedInterruptStays ==
    /\ [][interrupt_mode = Deferred(TRUE) => interrupt_mode' = Deferred(TRUE)]_vars
    /\ [](/\ (/\ last_event \in InterruptInputs \cup {SetInterruptMode("Deferred")}
              /\ mode_at_dispatch = Deferred(TRUE))
             => interrupt_mode = Deferred(TRUE)
          /\ (/\ last_event = SetInterruptMode("Instantly")
              /\ mode_at_dispatch = Deferred(TRUE))
             => (pc = "done" /\ interrupt_mode = Deferred(TRUE))
          /\ (last_event = SetInterruptMode("Deferred") /\ mode_at_dispatch = Instantly)
             => interrupt_mode = Deferred(FALSE))

\* C20 happens: SetInterruptMode(Deferred) was handled with an interrupt
\* requested, and the loop goes on with the interrupt requested.
C20_Witness ==
    /\ last_event = SetInterruptMode("Deferred")
    /\ mode_at_dispatch = Deferred(TRUE)
    /\ interrupt_mode = Deferred(TRUE)
    /\ pc = "poll"
    /\ redrawn

\* The redraw was elided: the loop found the view-state and the tree to be
\* the recorded ones and goes on to the next event without drawing.
Elided == pc = "deep_eq" /\ root_unchanged(previous_root, tree)

\* What the latest frame was drawn from is what the loop has now.
FrameOfTree  == entries = sorted_snapshot(tree)
FrameOfState == IsSome(frame) /\ Unwrap(frame).state = tui_state
FrameOfMode  == IsSome(frame) /\ Unwrap(frame).mode = interrupt_mode

\* C18: whenever the loop elides a redraw, the latest frame was drawn from a
\* tree equal to the current tree, from a view-state equal to the current
\* view-state and with the current interrupt mode.
C18_ElidedFrameIsCurrent ==
    Elided => (FrameOfTree /\ FrameOfState /\ FrameOfMode)

\* The parts of C18 one by one.  The view-state of the latest frame is the
\* current one whenever a redraw is elided; the tree and the request of an
\* interrupt need not be.
ElidedFrameOfState == Elided => FrameOfState
ElidedFrameOfTree  == Elided => FrameOfTree
ElidedFrameOfRequest ==
    (Elided /\ interrupt_mode = Deferred(TRUE)) => FrameOfMode

-----------------------------------------------------------------------------
(* The scroll keys *)

\* The offsets the view-state has when a scroll key arrives: small ones, and
\* ones that many scroll keys before have brought next to the maximum.
ScrollOffsets == {0, 5, 12, 25, U16 - 6, U16 - 1}

ScrollInputs == {Input(k) : k \in ScrollKeys}

\* The options of the runs that are scrolled: the tree is empty.
ScrollOptionSets == {o \in TuiOptionSets : ~o.stop_if_empty_progress}

\* The view-state scrolled to the offsets t and m.
Scrolled(t, m) ==
    [InitialTuiState EXCEPT !.task_offset = t, !.message_offset = m]

\* The loop after the iteration of the scroll key that brought the offsets
\* to t and m, on an empty tree: the key changed the view-state, and the
\* iteration has drawn it.
ScrollInit ==
    /\ TreeInit
    /\ LineStateInit
    /\ BarIdle
    /\ KeyIdle
    /\ \E opts \in ScrollOptionSets, t \in ScrollOffsets, m \in ScrollOffsets,
          count \in 2..MaxFrames :
          /\ pc = "poll"
          /\ tui_state = store_column_width(draw_all(Scrolled(t, m), <<>>), count,
                                            store_task_size_every(opts))
          /\ interrupt_mode = Instantly
          /\ tick = count
          /\ previous_root = None
          /\ previous_state = IF opts.redraw_only_on_state_change
                              THEN Some(Scrolled(t, m)) ELSE None
          /\ entries = <<>>
          /\ options = opts
          /\ view_changes = 0
          /\ last_event = [type |-> "none", arg |-> ""]
          /\ redrawn = TRUE
          /\ calm = NotCalm
          /\ calm_at_dispatch = NotCalm
          /\ mode_at_dispatch = Instantly
          /\ frame = Some([state |-> Scrolled(t, m), mode |-> Instantly])

ScrollNext ==
    \/ \E event \in {Tick} \cup ScrollInputs : HandleEvent(event)
    \/ DeepEq
    \/ DeepClone
    \/ Draw

ScrollSpec == ScrollInit /\ [][ScrollNext]_vars

\* What each scroll key is to do: the offset it moves, and by how much.
ScrollsTasks(key) == key \in {"j", "d", "k", "u"}
ScrollsDown(key)  == key \in {"j", "d", "J", "D"}
ScrollAmount(key) == IF key \in {"j", "k", "J", "K"} THEN 1 ELSE 10

\* The offset after the key, for the offset before it: moved by the amount
\* of the key, and kept within 0 and the maximum of the integer.
ScrolledBy(key, offset) ==
    IF ScrollsDown(key)
    THEN (IF offset + ScrollAmount(key) > U16 - 1 THEN U16 - 1
          ELSE offset + ScrollAmount(key))
    ELSE (IF offset < ScrollAmount(key) THEN 0 ELSE offset - ScrollAmount(key))

\* The step of the loop that handles a scroll key.
ScrollKeyStep ==
    pc = "poll" /\ last_event' \in ScrollInputs /\ view_changes' # view_changes

\* C21: a scroll key moves its own offset by 1 or 10 and stops at 0 and at
\* the maximum; it leaves the other offset and the rest of the view-state as
\* they are; and no other step of the loop changes an offset.
C21_ScrollKeysSaturate ==
    /\ [][ScrollKeyStep =>
            tui_state' =
                IF ScrollsTasks(last_event'.arg)
                THEN [tui_state EXCEPT !.task_offset =
                         ScrolledBy(last_event'.arg, tui_state.task_offset)]
                ELSE [tui_state EXCEPT !.message_offset =
                         ScrolledBy(last_event'.arg, tui_state.message_offset)]]_vars
    /\ [][~ScrollKeyStep =>
            /\ tui_state'.task_offset = tui_state.task_offset
            /\ tui_state'.message_offset = tui_state.message_offset]_vars
    /\ [](/\ tui_state.task_offset \in 0..(U16 - 1)
          /\ tui_state.message_offset \in 0..(U16 - 1))

\* C21 happens: 'd' was handled with the task offset less than 10 below the
\* maximum (no offset of ScrollOffsets is 10 or more below it and within
\* reach), and the offset is the maximum; the message offset is as it was.
C21_Witness ==
    /\ last_event = Input("d")
    /\ tui_state.task_offset = U16 - 1
    /\ tui_state.message_offset = 5
    /\ pc = "poll"
    /\ redrawn

\* C21 happens at the other end: 'U' was handled with the message offset
\* below 10, and the offset is 0.
C21_WitnessAtZero ==
    /\ last_event = Input("U")
    /\ tui_state.message_offset = 0
    /\ tui_state.task_offset = 25
    /\ pc = "poll"
    /\ redrawn

-----------------------------------------------------------------------------
(* Keys without a match arm *)

OtherInputs == {Input(k) : k \in OtherKeys}

\* C22: the iteration of an Input event whose key has no match arm of its
\* own changes none of the view-state, the interrupt mode, the frame
\* counter, the recorded view-state and tree, the snapshot buffer and the
\* frame on the terminal, and the loop waits for the next event without
\* having run the redraw pass, whatever the options.
C22_OtherKeyChangesNothing ==
    /\ [][(pc = "poll" /\ last_event' \in OtherInputs) =>
            /\ UNCHANGED <<tui_state, interrupt_mode, tick, previous_state,
                           previous_root, entries, frame>>
            /\ pc' = "poll"
            /\ ~redrawn']_vars
    /\ [](last_event \in OtherInputs => (pc = "poll" /\ ~redrawn))

\* C22 happens: such a key was handled after frames were drawn, with a
\* recorded tree and an interrupt requested.
C22_Witness ==
    /\ last_event \in OtherInputs
    /\ tick > 0
    /\ IsSome(previous_root)
    /\ IsSome(previous_state)
    /\ interrupt_mode = Deferred(TRUE)
    /\ IsSome(frame)

-----------------------------------------------------------------------------
(* The width of the task column *)

\* The options of the runs that are about the width of the task column:
\* recompute_column_width_every_nth_frame unset, 0, and periods from 1 on.
WidthOptionSets ==
    [redraw_only_on_state_change : BOOLEAN,
     stop_if_empty_progress : BOOLEAN,
     recompute_column_width_every_nth_frame : {None} \cup {Some(n) : n \in 0..3}]

WidthInit ==
    /\ TreeInit
    /\ LineStateInit
    /\ BarIdle
    /\ KeyIdle
    /\ \E opts \in WidthOptionSets : TuiStateInit(opts)

\* The loop on Tick events, over a tree whose widest name changes.
WidthNext ==
    \/ HandleEvent(Tick)
    \/ DeepEq
    \/ DeepClone
    \/ Draw
    \/ \E i \in Slots, v \in TaskValues : TuiSetTask(i, v)
    \/ \E i \in Slots : TuiRemoveTask(i)

WidthSpec == WidthInit /\ [][WidthNext]_vars

\* N = max(1, n), and 1 when n is unset.
EffectivePeriod ==
    IF options.recompute_column_width_every_nth_frame = None THEN 1
    ELSE IF Unwrap(options.recompute_column_width_every_nth_frame) = 0 THEN 1
    ELSE Unwrap(options.recompute_column_width_every_nth_frame)

\* The step of the loop that draws a frame.
DrawsFrame == pc = "draw" /\ pc' = "poll"

\* A width that is unset or 0.
NoWidth(w) == w = None \/ w = Some(0)

C23_WitnessZero ==
    /\ options.recompute_column_width_every_nth_frame = Some(0)
    /\ redrawn
    /\ tick > 1
    /\ ~NoWidth(tui_state.next_tree_column_width)

-----------------------------------------------------------------------------
(* The line renderer: when and which progress rows are written *)

\* The entries of the snapshot of the latest call whose level is within the
\* level filter of the call, both ends included; every entry without filter.
InLevelFilter(e) ==
    \/ Unwrap(call).config.level_filter = None
    \/ /\ IsSome(Unwrap(call).config.level_filter)
       /\ Unwrap(Unwrap(call).config.level_filter).start <= e.level
       /\ e.level <= Unwrap(Unwrap(call).config.level_filter).end
EntriesInLevelFilter == SelectSeq(state_tree, InLevelFilter)

\* blocks_per_line as the call found it, less one width per message line.
WidthsLeftByMessages ==
    IF Len(MessageLines) >= Len(prev_state.blocks_per_line) THEN <<>>
    ELSE SubSeq(prev_state.blocks_per_line, Len(MessageLines) + 1,
                Len(prev_state.blocks_per_line))

C24_WitnessRows ==
    /\ Succeeded
    /\ ShowedProgress
    /\ MessageLines # <<>>
    /\ RowKeys # <<>>

\* C24 happens: a call with show_progress on a terminal wrote no row for an
\* entry outside the level filter.
C24_WitnessFiltered ==
    /\ Succeeded
    /\ ShowedProgress
    /\ state_tree # <<>>
    /\ Len(RowKeys) < Len(state_tree)

-----------------------------------------------------------------------------
(* src/tui/engine.rs: key_input_stream, and the loop that reads its channel *)

\* What io::stdin().keys() hands out: keys of the Key of this crate, and
\* a key of the terminal library that has no counterpart in it.
RawKeys == {"x", "Left", "__IsNotComplete"}

\* key?.try_into(): Some of the Key for the keys that have a match arm of
\* their own, None for the others (`_ => return Err(value)`).
try_into(raw) == IF raw \in Keys THEN Some(raw) ELSE None

\* mpsc::channel::<Key>(1): the size of the buffer.
KeyChannelBuffer == 1

\* The messages the channel holds at most: its buffer, and one for its one
\* sender.
KeyChannelCapacity == KeyChannelBuffer + 1

\* A send that gives up the key when the channel is full.
send_dropping_when_full(queue, key, open) ==
    IF open /\ Len(queue) < KeyChannelCapacity
    THEN [done |-> TRUE, queue |-> Append(queue, key)]
    ELSE [done |-> TRUE, queue |-> queue]

\* smol::block_on(key_send.send(key)).ok(): whether the send has returned,
\* and the channel afterwards.  It returns an error that is discarded once
\* the receiver is gone, and does not return while the channel is full.
send(queue, key, open) ==
    IF ~open THEN [done |-> TRUE, queue |-> queue]
    ELSE IF Len(queue) < KeyChannelCapacity
         THEN [done |-> TRUE, queue |-> Append(queue, key)]
         ELSE [done |-> FALSE, queue |-> queue]

\* The receiver lives as long as the loop runs.
ReceiverOpen == pc # "done"

\* `for key in io::stdin().keys()`, up to the send: the thread reads a key
\* and converts it.
ReaderRead ==
    /\ key_send = None
    /\ stdin # <<>>
    /\ stdin' = Tail(stdin)
    /\ keys_read' = Append(keys_read, Head(stdin))
    /\ key_send' = try_into(Head(stdin))
    /\ UNCHANGED <<key_receive, delivered, treeVars, lineVars, tuiVars, barVars>>

\* The send of the converted key returns.
ReaderSend ==
    /\ IsSome(key_send)
    /\ \E r \in {send(key_receive, Unwrap(key_send), ReceiverOpen)} :
          /\ r.done
          /\ key_receive' = r.queue
    /\ key_send' = None
    /\ UNCHANGED <<stdin, keys_read, delivered, treeVars, lineVars, tuiVars,
                   barVars>>

\* events.next() yields key_receive.map(|key| Event::Input(key)): the
\* iteration of the oldest key of the channel.
ReceiveKey ==
    /\ key_receive # <<>>
    /\ Iteration(Input(Head(key_receive)))
    /\ key_receive' = Tail(key_receive)
    /\ delivered' = Append(delivered, Head(key_receive))
    /\ UNCHANGED <<stdin, keys_read, key_send>>

\* The sequences of at most n keys the terminal hands out.
RECURSIVE KeySequences(_)
KeySequences(n) ==
    IF n = 0 THEN {<<>>}
    ELSE KeySequences(n - 1)
         \cup {Append(q, k) : q \in {r \in KeySequences(n - 1) : Len(r) = n - 1},
                              k \in RawKeys}

KeyInit ==
    /\ TreeInit
    /\ LineStateInit
    /\ BarIdle
    /\ \E opts \in TuiOptionSets : TuiStateInit(opts)
    /\ stdin \in KeySequences(MaxKeys)
    /\ keys_read = <<>>
    /\ key_send = None
    /\ key_receive = <<>>
    /\ delivered = <<>>

\* The key reader and the loop, with the ticker.
KeyNext ==
    \/ ReaderRead
    \/ ReaderSend
    \/ ReceiveKey
    \/ HandleEvent(Tick)
    \/ DeepEq
    \/ DeepClone
    \/ Draw

\* The thread runs on its own; the loop runs a started iteration on, and
\* select_all gives the channel its turn among the streams that are ready.
KeySpec ==
    /\ KeyInit
    /\ [][KeyNext]_vars
    /\ WF_vars(ReaderRead)
    /\ WF_vars(ReaderSend)
    /\ SF_vars(ReceiveKey)
    /\ WF_vars(DeepEq)
    /\ WF_vars(DeepClone)
    /\ WF_vars(Draw)

\* The keys among `raws` that convert, in their order.
RECURSIVE Decoded(_)
Decoded(raws) ==
    IF raws = <<>> THEN <<>>
    ELSE (IF Head(raws) \in Keys THEN <<Head(raws)>> ELSE <<>>)
         \o Decoded(Tail(raws))

\* The keys on their way: in the channel, and in the send of the thread.
InFlight == key_receive \o (IF IsSome(key_send) THEN <<Unwrap(key_send)>> ELSE <<>>)

\* C25: as long as the loop runs, the keys given to it as Input followed by
\* the keys on their way are the keys read so far that convert, each once and
\* in the order read (none is lost, doubled or overtaken, whether or not the
\* channel was full, and a key that does not convert leaves no trace); the
\* loop is never given a key that was not read; and unless the loop ends,
\* every key the terminal hands out is read and every one that converts is
\* given to the loop.
C25_KeysDeliveredOnceInOrder ==
    /\ [](ReceiverOpen => delivered \o InFlight = Decoded(keys_read))
    /\ [](/\ Len(delivered) <= Len(Decoded(keys_read))
          /\ delivered = SubSeq(Decoded(keys_read), 1, Len(delivered))
          /\ Len(key_receive) <= KeyChannelCapacity)
    /\ <>(\/ ~ReceiverOpen
          \/ (stdin = <<>> /\ delivered = Decoded(keys_read)))

\* C25 happens: a key that does not convert was read between two that do,
\* and the loop was given the two in the order read.
C25_Witness ==
    /\ ReceiverOpen
    /\ keys_read = <<"x", "__IsNotComplete", "Left">>
    /\ delivered = <<"x", "Left">>
    /\ last_event = Input("Left")

\* C25 happens: the channel is full and the thread waits in the send of a
\* third key.
C25_WitnessFull ==
    /\ ReceiverOpen
    /\ Len(key_receive) = KeyChannelCapacity
    /\ IsSome(key_send)
    /\ delivered = <<>>

\* C25 happens: three keys were read and the loop was given all three in the
\* order read.
C25_WitnessThree ==
    /\ ReceiverOpen
    /\ keys_read = <<"x", "Left", "x">>
    /\ delivered = keys_read

=============================================================================
